---- MODULE Spec2Model ----
(***************************************************************************)
(* State-machine model of src/src/comparator.rs: the two comparator units  *)
(* COMP1 and COMP2 of the STM32G0 COMP block, their control registers, the *)
(* input-source bindings, single-unit and window-comparator operations and *)
(* the split bring-up.                                                     *)
(***************************************************************************)
EXTENDS Integers, Sequences, FiniteSets, TLC

VARIABLES
    rcc,      \* RCC bits touched by split: [syscfgen, syscfgrst]
    handles,  \* TRUE once split has returned the two Comparator handles
    csr,      \* csr[u]: the control register COMPu_CSR, one record of bit-fields
    call,     \* the last completed call: operation, arguments, returned value
    log,      \* the register writes the last call performed, in program order
    analog,   \* the analog environment: signal voltage, the pin it drives, ...
    lastEn,   \* history: per unit, the last enable/disable call on it
    lastInv,  \* history: per unit, output_inverted of its most recent init
    direct,   \* history: a constituent unit's own enable/disable was called
    win       \* history: the window set up by the first init after split

vars == <<rcc, handles, csr, call, log, analog, lastEn, lastInv, direct, win>>

(***************************************************************************)
(* Units, configuration values and input sources                           *)
(***************************************************************************)
Unit == {1, 2}

Other(u) == 3 - u

\* enum Hysteresis { None = 0b00, Low = 0b01, Medium = 0b10, High = 0b11 }
Hysteresis == 0 .. 3

\* enum PowerMode { HighSpeed = 0b00, MediumSpeed = 0b01 }
PowerMode == 0 .. 1

\* struct Config
Config == [power_mode : PowerMode, hysteresis : Hysteresis,
           inverted : BOOLEAN, output_xor : BOOLEAN]

\* impl Default for Config
default == [power_mode |-> 0, hysteresis |-> 0, inverted |-> FALSE, output_xor |-> FALSE]

\* Config::hysteresis / output_inverted / output_polarity / power_mode / output_xor
hysteresis(c, h) == [c EXCEPT !.hysteresis = h]

output_inverted(c) == [c EXCEPT !.inverted = TRUE]

output_polarity(c, inverted) == [c EXCEPT !.inverted = inverted]

power_mode(c, m) == [c EXCEPT !.power_mode = m]

output_xor(c) == [c EXCEPT !.output_xor = TRUE]

\* The cross-link source a unit accepts: Comp2InP on COMP1, Comp1InP on COMP2
window_input_pin(u) == IF u = 1 THEN "Comp2InP" ELSE "Comp1InP"

\* The pins (and Open) with a positive_input_pin! binding for unit u
PositivePins(u) == IF u = 1 THEN {"PC5", "PB2", "PA1", "Open"}
                            ELSE {"PB4", "PB6", "PA3", "Open"}

\* Every type with a PositiveInput<COMPu> implementation
PositiveInput(u) == PositivePins(u) \cup {window_input_pin(u)}

\* positive_input_pin!(COMPu, pin, bits): the INPSEL value of each binding
positive_input_pin(u, p) ==
    IF u = 1
    THEN CASE p = "PC5"  -> 0
           [] p = "PB2"  -> 1
           [] p = "PA1"  -> 2
           [] p = "Open" -> 3
    ELSE CASE p = "PB4"  -> 0
           [] p = "PB6"  -> 1
           [] p = "PA3"  -> 2
           [] p = "Open" -> 3

\* The pins with a negative_input_pin! binding for unit u
NegativePins(u) == IF u = 1 THEN {"PB1", "PC4", "PA0"} ELSE {"PB3", "PB7", "PA2"}

\* Faulty variant of negative_input_pin: PB7 on COMP2 reuses the code of PB3
negative_input_pin_dup(u, n) ==
    IF u = 1
    THEN CASE n = "PB1" -> 6
           [] n = "PC4" -> 7
           [] n = "PA0" -> 8
    ELSE CASE n = "PB3" -> 6
           [] n = "PB7" -> 6
           [] n = "PA2" -> 8

\* negative_input_pin!(COMPu, pin, bits): the INMSEL value of each binding
negative_input_pin(u, n) ==
    IF u = 1
    THEN CASE n = "PB1" -> 6
           [] n = "PC4" -> 7
           [] n = "PA0" -> 8
    ELSE CASE n = "PB3" -> 6
           [] n = "PB7" -> 7
           [] n = "PA2" -> 8

\* enum RefintInput, cast with `as u8`
RefintInputs == {"VRefintM14", "VRefintM12", "VRefintM34", "VRefint"}

RefintInput(n) ==
    CASE n = "VRefintM14" -> 0
      [] n = "VRefintM12" -> 1
      [] n = "VRefintM34" -> 2
      [] n = "VRefint"    -> 3

\* dac_input!(COMPu, channel, bits), the same for both units
DacInputs == {"Channel1", "Channel2"}

dac_input(u, n) ==
    CASE n = "Channel1" -> 4
      [] n = "Channel2" -> 5

\* Every type with a NegativeInput<COMPu> implementation
NegativeInput(u) == NegativePins(u) \cup RefintInputs \cup DacInputs

(***************************************************************************)
(* Registers.  A write is a record of the fields a `modify` closure sets;  *)
(* modify reads the register, overwrites those fields and writes it back.  *)
(***************************************************************************)
CsrFields == {"en", "hyst", "inpsel", "inmsel", "polarity", "pwrmode", "winmode", "winout"}

\* Reset value of COMPx_CSR
CsrReset == [f \in CsrFields |-> 0]

Bit(b) == IF b THEN 1 ELSE 0

modify(reg, w) == [f \in DOMAIN reg |-> IF f \in DOMAIN w THEN w[f] ELSE reg[f]]

\* COMP1::csr / COMP2::csr: the register a unit's handle reaches
csr_of(u) == IF u = 1 THEN "comp1_csr" ELSE "comp2_csr"

CsrWrite(u, w) == [reg |-> csr_of(u), w |-> w]

\* The effect of one logged write on the hardware state h = [rcc, csr].
\* Setting SYSCFGRST resets the COMP registers.
Apply(h, e) ==
    CASE e.reg = "apbenr2"  -> [h EXCEPT !.rcc = modify(h.rcc, e.w)]
      [] e.reg = "apbrstr2" ->
            [rcc |-> modify(h.rcc, e.w),
             csr |-> IF e.w.syscfgrst = 1 THEN [u \in Unit |-> CsrReset] ELSE h.csr]
      [] e.reg = "comp1_csr" -> [h EXCEPT !.csr[1] = modify(h.csr[1], e.w)]
      [] e.reg = "comp2_csr" -> [h EXCEPT !.csr[2] = modify(h.csr[2], e.w)]

RECURSIVE ApplyAll(_, _)
ApplyAll(h, es) == IF es = <<>> THEN h ELSE ApplyAll(Apply(h, Head(es)), Tail(es))

(***************************************************************************)
(* The register writes of each operation, in program order                 *)
(***************************************************************************)
\* Faulty variant of positive_setup: the cross-link binding also rewrites INPSEL
positive_setup_clearsel(u, p) ==
    IF p = window_input_pin(u)
    THEN CsrWrite(u, [winmode |-> 1, inpsel |-> 0])
    ELSE CsrWrite(u, [inpsel |-> positive_input_pin(u, p)])

\* Faulty variant of positive_setup: a pin binding also clears WINMODE
positive_setup_clearwin(u, p) ==
    IF p = window_input_pin(u)
    THEN CsrWrite(u, [winmode |-> 1])
    ELSE CsrWrite(u, [inpsel |-> positive_input_pin(u, p), winmode |-> 0])

\* PositiveInput::setup
positive_setup(u, p) ==
    IF p = window_input_pin(u)
    THEN CsrWrite(u, [winmode |-> 1])
    ELSE CsrWrite(u, [inpsel |-> positive_input_pin(u, p)])

\* NegativeInput::setup
negative_setup(u, n) ==
    CsrWrite(u, [inmsel |-> CASE n \in NegativePins(u) -> negative_input_pin(u, n)
                              [] n \in RefintInputs    -> RefintInput(n)
                              [] n \in DacInputs       -> dac_input(u, n)])

\* Faulty variant of config_write: POLARITY is not taken from the Config
config_write_nopol(u, config) ==
    CsrWrite(u, [hyst     |-> config.hysteresis,
                 polarity |-> 0,
                 pwrmode  |-> config.power_mode,
                 winout   |-> Bit(config.output_xor)])

\* The combined configuration update of ComparatorExt::init
config_write(u, config) ==
    CsrWrite(u, [hyst     |-> config.hysteresis,
                 polarity |-> Bit(config.inverted),
                 pwrmode  |-> config.power_mode,
                 winout   |-> Bit(config.output_xor)])

\* Faulty variant of init_writes: the configuration goes out in two updates
init_writes_split(u, p, n, config) ==
    <<positive_setup(u, p), negative_setup(u, n),
      CsrWrite(u, [hyst |-> config.hysteresis, polarity |-> Bit(config.inverted)]),
      CsrWrite(u, [pwrmode |-> config.power_mode, winout |-> Bit(config.output_xor)])>>

\* ComparatorExt::init
init_writes(u, p, n, config) ==
    <<positive_setup(u, p), negative_setup(u, n), config_write(u, config)>>

\* Faulty variant of disable_writes: the other unit's EN is cleared
disable_writes_other(u) == <<CsrWrite(Other(u), [en |-> 0])>>

\* ComparatorExt::enable / disable
enable_writes(u) == <<CsrWrite(u, [en |-> 1])>>

disable_writes(u) == <<CsrWrite(u, [en |-> 0])>>

\* Faulty variant of split_writes: the reset pulse is issued backwards
split_writes_backwards ==
    <<[reg |-> "apbenr2",  w |-> [syscfgen  |-> 1]],
      [reg |-> "apbrstr2", w |-> [syscfgrst |-> 0]],
      [reg |-> "apbrstr2", w |-> [syscfgrst |-> 1]]>>

\* split: clock enable, then the reset pulse
split_writes ==
    <<[reg |-> "apbenr2",  w |-> [syscfgen  |-> 1]],
      [reg |-> "apbrstr2", w |-> [syscfgrst |-> 1]],
      [reg |-> "apbrstr2", w |-> [syscfgrst |-> 0]]>>

\* Faulty variant of window_init_writes: output_xor is taken from the caller
window_init_writes_noforce(up, input, lower_threshold, upper_threshold, config) ==
    init_writes(up, input, upper_threshold, config)
    \o init_writes(Other(up), window_input_pin(Other(up)), lower_threshold, config)

\* Faulty variant of window_init_writes: the two thresholds are exchanged
window_init_writes_swapped(up, input, lower_threshold, upper_threshold, config) ==
    init_writes(up, input, lower_threshold, [config EXCEPT !.output_xor = TRUE])
    \o init_writes(Other(up), window_input_pin(Other(up)), upper_threshold,
                   [config EXCEPT !.output_xor = FALSE])

\* WindowComparatorExt::init: the upper unit with output_xor forced on, then the
\* lower unit on its cross-link source with output_xor forced off
window_init_writes(up, input, lower_threshold, upper_threshold, config) ==
    LET configu == [config EXCEPT !.output_xor = TRUE]
        configl == [config EXCEPT !.output_xor = FALSE]
    IN  init_writes(up, input, upper_threshold, configu)
        \o init_writes(Other(up), window_input_pin(Other(up)), lower_threshold, configl)

\* Faulty variant of window_enable_writes: only the upper unit is enabled
window_enable_writes_upper(up) == enable_writes(up)

\* WindowComparatorExt::enable / disable: the upper unit, then the lower unit
window_enable_writes(up) == enable_writes(up) \o enable_writes(Other(up))

window_disable_writes(up) == disable_writes(up) \o disable_writes(Other(up))

(***************************************************************************)
(* The comparator hardware behind the VALUE bit (RM0444, COMP chapter).    *)
(* Voltages are small integers; Floating stands for an undriven node.      *)
(***************************************************************************)
MaxVolt == 4

Volt == 0 .. MaxVolt

Floating == 0 - 1

\* The pin the positive multiplexer of unit u selects for an INPSEL value
HwPositivePin(u, sel) ==
    IF u = 1
    THEN CASE sel = 0 -> "PC5" [] sel = 1 -> "PB2" [] sel = 2 -> "PA1" [] OTHER -> "Open"
    ELSE CASE sel = 0 -> "PB4" [] sel = 1 -> "PB6" [] sel = 2 -> "PA3" [] OTHER -> "Open"

\* The source the negative multiplexer of unit u selects for an INMSEL value
HwNegativeSource(u, sel) ==
    CASE sel = 0 -> "VRefintM14"
      [] sel = 1 -> "VRefintM12"
      [] sel = 2 -> "VRefintM34"
      [] sel = 3 -> "VRefint"
      [] sel = 4 -> "Channel1"
      [] sel = 5 -> "Channel2"
      [] sel = 6 -> IF u = 1 THEN "PB1" ELSE "PB3"
      [] sel = 7 -> IF u = 1 THEN "PC4" ELSE "PB7"
      [] sel = 8 -> IF u = 1 THEN "PA0" ELSE "PA2"
      [] OTHER   -> "Open"

\* The voltage the environment puts on a named source: the signal on the one
\* wired pin, the reference taps at 1/4 .. 4/4 of VREFINT, one external level
\* on the negative pins and DAC outputs, nothing on any other node.
SourceVolt(env, name) ==
    CASE name = env.wire       -> env.vin
      [] name = "VRefintM14"   -> 1
      [] name = "VRefintM12"   -> 2
      [] name = "VRefintM34"   -> 3
      [] name = "VRefint"      -> 4
      [] name \in DacInputs \cup NegativePins(1) \cup NegativePins(2) -> env.vext
      [] OTHER                 -> Floating

\* The positive terminal: with WINMODE set, the signal the other unit's INPSEL selects
PlusVolt(regs, env, u) ==
    IF regs[u].winmode = 1
    THEN SourceVolt(env, HwPositivePin(Other(u), regs[Other(u)].inpsel))
    ELSE SourceVolt(env, HwPositivePin(u, regs[u].inpsel))

MinusVolt(regs, env, u) == SourceVolt(env, HwNegativeSource(u, regs[u].inmsel))

\* What the analog stage of unit u can report: plus > minus; anything when the
\* unit is off, a terminal floats or the two voltages are equal
Compare(regs, env, u) ==
    LET p == PlusVolt(regs, env, u)
        m == MinusVolt(regs, env, u)
    IN  IF regs[u].en = 0 \/ p = Floating \/ m = Floating \/ p = m
        THEN BOOLEAN
        ELSE {p > m}

\* The values the VALUE bit of unit u can take: the comparison, XORed with the
\* other unit's comparison when WINOUT is set, inverted when POLARITY is set
Value(regs, env, u) ==
    {((a # b) # (regs[u].polarity = 1)) :
        a \in Compare(regs, env, u),
        b \in IF regs[u].winout = 1 THEN Compare(regs, env, Other(u)) ELSE {FALSE}}

(***************************************************************************)
(* Operations.  Each action is one whole call; Do applies its writes.      *)
(***************************************************************************)
NoArg == "-"

Call(op, u, p, n, t, c, r) ==
    [op |-> op, unit |-> u, pos |-> p, neg |-> n, thr |-> t, config |-> c, ret |-> r]

NoCall == Call("none", 0, NoArg, NoArg, NoArg, default, FALSE)

Do(c, es) ==
    LET h == ApplyAll([rcc |-> rcc, csr |-> csr], es)
    IN  /\ rcc' = h.rcc
        /\ csr' = h.csr
        /\ log' = es
        /\ call' = c

InvTag(config) == IF config.inverted THEN "inverted" ELSE "plain"

NoWin == [state |-> "none", up |-> 0, input |-> NoArg, lo |-> NoArg, hi |-> NoArg,
          config |-> default]

StaleWin == [NoWin EXCEPT !.state = "stale"]

\* split(COMP, &mut Rcc): consumes the peripheral block, so it runs once
split ==
    /\ ~handles
    /\ Do(Call("split", 0, NoArg, NoArg, NoArg, default, FALSE), split_writes)
    /\ handles' = TRUE
    /\ UNCHANGED <<analog, lastEn, lastInv, direct, win>>

\* Comparator<COMPu>::init(positive_input, negative_input, config)
init(u, p, n, config) ==
    /\ handles
    /\ Do(Call("init", u, p, n, NoArg, config, FALSE), init_writes(u, p, n, config))
    /\ lastInv' = [lastInv EXCEPT ![u] = InvTag(config)]
    /\ win' = StaleWin
    /\ UNCHANGED <<handles, analog, lastEn, direct>>

\* Comparator<COMPu>::enable()
enable(u) ==
    /\ handles
    /\ Do(Call("enable", u, NoArg, NoArg, NoArg, default, FALSE), enable_writes(u))
    /\ lastEn' = [lastEn EXCEPT ![u] = "enable"]
    /\ direct' = TRUE
    /\ UNCHANGED <<handles, analog, lastInv, win>>

\* Comparator<COMPu>::disable()
disable(u) ==
    /\ handles
    /\ Do(Call("disable", u, NoArg, NoArg, NoArg, default, FALSE), disable_writes(u))
    /\ lastEn' = [lastEn EXCEPT ![u] = "disable"]
    /\ direct' = TRUE
    /\ UNCHANGED <<handles, analog, lastInv, win>>

\* Comparator<COMPu>::output(): reads the VALUE bit, writes nothing
output(u) ==
    /\ handles
    /\ \E r \in Value(csr, analog, u) :
          Do(Call("output", u, NoArg, NoArg, NoArg, default, r), <<>>)
    /\ UNCHANGED <<handles, analog, lastEn, lastInv, direct, win>>

\* WindowComparator<up, lower>::init(input, lower_threshold, upper_threshold, config)
window_init(up, input, lower_threshold, upper_threshold, config) ==
    /\ handles
    /\ Do(Call("window_init", up, input, lower_threshold, upper_threshold, config, FALSE),
          window_init_writes(up, input, lower_threshold, upper_threshold, config))
    /\ lastInv' = [u \in Unit |-> InvTag(config)]
    /\ win' = IF win.state = "none"
              THEN [state |-> "fresh", up |-> up, input |-> input,
                    lo |-> lower_threshold, hi |-> upper_threshold, config |-> config]
              ELSE StaleWin
    /\ UNCHANGED <<handles, analog, lastEn, direct>>

\* WindowComparator::output(): the upper unit's output
window_output(up) ==
    /\ handles
    /\ \E r \in Value(csr, analog, up) :
          Do(Call("window_output", up, NoArg, NoArg, NoArg, default, r), <<>>)
    /\ UNCHANGED <<handles, analog, lastEn, lastInv, direct, win>>

\* WindowComparator::above_lower(): the lower unit's output
above_lower(up) ==
    /\ handles
    /\ \E r \in Value(csr, analog, Other(up)) :
          Do(Call("above_lower", up, NoArg, NoArg, NoArg, default, r), <<>>)
    /\ UNCHANGED <<handles, analog, lastEn, lastInv, direct, win>>

\* WindowComparator::enable()
window_enable(up) ==
    /\ handles
    /\ Do(Call("window_enable", up, NoArg, NoArg, NoArg, default, FALSE),
          window_enable_writes(up))
    /\ lastEn' = [u \in Unit |-> "enable"]
    /\ UNCHANGED <<handles, analog, lastInv, direct, win>>

\* WindowComparator::disable()
window_disable(up) ==
    /\ handles
    /\ Do(Call("window_disable", up, NoArg, NoArg, NoArg, default, FALSE),
          window_disable_writes(up))
    /\ lastEn' = [u \in Unit |-> "disable"]
    /\ UNCHANGED <<handles, analog, lastInv, direct, win>>

(***************************************************************************)
(* Initial states: before split.  An earlier boot stage may have left the  *)
(* clock on and the comparators configured.                                *)
(***************************************************************************)
BootCsr == {CsrReset, [CsrReset EXCEPT !.en = 1, !.winmode = 1, !.polarity = 1]}

Boot(envs) ==
    /\ rcc \in [syscfgen : {0, 1}, syscfgrst : {0}]
    /\ handles = FALSE
    /\ csr \in [Unit -> BootCsr]
    /\ call = NoCall
    /\ log = <<>>
    /\ analog \in envs
    /\ lastEn = [u \in Unit |-> "none"]
    /\ lastInv = [u \in Unit |-> "none"]
    /\ direct = FALSE
    /\ win = NoWin

(***************************************************************************)
(* Spec: the life of the two units and of the window built from them, on   *)
(* a small set of inputs: plain and inverted configurations, one pin and   *)
(* the cross-link per unit, one reference tap.                             *)
(***************************************************************************)
CtlConfigs == {default, output_inverted(default)}

CtlPos(u) == {HwPositivePin(u, 1), window_input_pin(u)}

CtlNeg(u) == {"VRefintM12"}

CtlEnvs == {[vin |-> v, wire |-> "PB2", vext |-> 0] : v \in {1, 3}}

Init == Boot(CtlEnvs)

Next ==
    \/ split
    \/ \E u \in Unit, c \in CtlConfigs : \E p \in CtlPos(u), n \in CtlNeg(u) :
          init(u, p, n, c)
    \/ \E u \in Unit : enable(u)
    \/ \E u \in Unit : disable(u)
    \/ \E u \in Unit : output(u)
    \/ \E up \in Unit, c \in CtlConfigs :
          \E i \in CtlPos(up), l \in CtlNeg(Other(up)), h \in CtlNeg(up) :
             window_init(up, i, l, h, c)
    \/ \E up \in Unit : window_enable(up)
    \/ \E up \in Unit : window_disable(up)
    \/ \E up \in Unit : window_output(up)
    \/ \E up \in Unit : above_lower(up)

Spec == Init /\ [][Next]_vars

(***************************************************************************)
(* Properties checked under Spec                                           *)
(***************************************************************************)
UnitOps == {"init", "enable", "disable", "output"}

WindowOps == {"window_init", "window_enable", "window_disable", "window_output",
              "above_lower"}

\* C3: for each unit, after any sequence of enable() and disable() calls on it,
\* interleaved with any calls on the other unit, EN is 1 iff the last such call
\* was enable(); disable() leaves EN clear and enable() leaves it set whatever
\* came before, and a repeated enable() or disable() on the same unit leaves
\* both registers exactly as they were after the first call.
C3_EnableDisable ==
    /\ [](handles => \A u \in Unit : (csr[u].en = 1) <=> (lastEn[u] = "enable"))
    /\ [][\A u \in Unit :
            /\ (call'.op = "enable" /\ call'.unit = u) => csr'[u].en = 1
            /\ (call'.op = "disable" /\ call'.unit = u) => csr'[u].en = 0
            /\ (call'.op \in {"enable", "disable"} /\ call'.unit = u /\ call' = call)
                  => csr' = csr]_vars

\* C3 witness: enable() has just run on a configured unit whose EN is set while
\* the other unit, last disabled, has EN clear.
C3_Witness ==
    /\ call.op = "enable"
    /\ csr[call.unit].en = 1
    /\ csr[call.unit].polarity = 1
    /\ lastEn[Other(call.unit)] = "disable"
    /\ csr[Other(call.unit)].en = 0

\* C6: from the state split leaves, as long as no constituent unit's own
\* enable()/disable() has been called, both EN bits are equal after every
\* completed call: both set after WindowComparator enable, both clear after
\* WindowComparator disable; so a state with exactly one unit enabled is reached
\* only after a direct enable()/disable() on a unit.
C6_WindowEnableTogether ==
    handles =>
        /\ (~direct => csr[1].en = csr[2].en)
        /\ (call.op = "window_enable" => csr[1].en = 1 /\ csr[2].en = 1)
        /\ (call.op = "window_disable" => csr[1].en = 0 /\ csr[2].en = 0)

\* C6 witness: WindowComparator disable has completed after an enable, with no
\* direct call on a unit, and both units are off.
C6_Witness ==
    /\ call.op = "window_disable"
    /\ ~direct
    /\ lastInv[1] # "none"
    /\ csr[1].en = 0 /\ csr[2].en = 0

\* What unit u reports for the analog condition alone, POLARITY left out
RawValue(u) == Value([csr EXCEPT ![u].polarity = 0], analog, u)

\* C7: a unit's POLARITY bit equals the output_inverted flag of the Config of its
\* most recent init (direct or through WindowComparator init); enable(),
\* disable() and the output reads never change it; and output() returns the raw
\* comparison when that flag was false and its negation when it was true.
C7_Polarity ==
    /\ [](handles => \A u \in Unit :
            lastInv[u] # "none" => csr[u].polarity = Bit(lastInv[u] = "inverted"))
    /\ [](\A u \in Unit :
            (call.op = "output" /\ call.unit = u /\ lastInv[u] # "none")
               => \E raw \in RawValue(u) : call.ret = (raw # (lastInv[u] = "inverted")))
    /\ [][call'.op \in {"enable", "disable", "output", "window_enable",
                        "window_disable", "window_output", "above_lower"}
            => \A u \in Unit : csr'[u].polarity = csr[u].polarity]_vars

\* C7 witness: output() on an enabled unit initialised with output_inverted =
\* true returns TRUE while the comparison itself is definitely FALSE.
C7_Witness ==
    /\ call.op = "output"
    /\ lastInv[call.unit] = "inverted"
    /\ RawValue(call.unit) = {FALSE}
    /\ call.ret = TRUE

\* C8: split writes, in this order, clock-enable := 1, reset := 1, reset := 0
\* and only then yields the handles; no call on a unit happens before that, and
\* once the handles exist the clock-enable bit is set and the reset bit clear.
C8_SplitOrder ==
    /\ (call.op = "split" =>
          /\ handles
          /\ log = <<[reg |-> "apbenr2",  w |-> [syscfgen  |-> 1]],
                     [reg |-> "apbrstr2", w |-> [syscfgrst |-> 1]],
                     [reg |-> "apbrstr2", w |-> [syscfgrst |-> 0]]>>
          /\ csr = [u \in Unit |-> CsrReset])
    /\ (handles => rcc.syscfgen = 1 /\ rcc.syscfgrst = 0)
    /\ (call.op \in UnitOps \cup WindowOps => handles)
    /\ (~handles => call = NoCall /\ log = <<>>)

\* C8 witness: a unit register is written through a handle after split.
C8_Witness ==
    /\ call.op = "enable"
    /\ handles
    /\ rcc.syscfgen = 1 /\ rcc.syscfgrst = 0
    /\ csr[call.unit].en = 1

\* C10: after split no operation clears WINMODE: once set it stays set through
\* every later init with a pin or Open source, enable(), disable() and reads.
C10_WinmodeSticky ==
    [][\A u \in Unit : (handles /\ csr[u].winmode = 1) => csr'[u].winmode = 1]_vars

\* C10 witness: init with a pin as positive source has just completed on a unit
\* whose WINMODE is still set from an earlier cross-link binding.
C10_Witness ==
    /\ call.op = "init"
    /\ call.pos \in PositivePins(call.unit)
    /\ csr[call.unit].winmode = 1
    /\ csr[call.unit].inpsel = positive_input_pin(call.unit, call.pos)

(***************************************************************************)
(* SpecConfig: WindowComparator init over every Config value and both      *)
(* pairings, after unit inits that leave WINOUT set or clear.              *)
(***************************************************************************)
OneEnv == {[vin |-> 1, wire |-> "PB2", vext |-> 0]}

InitConfig == Boot(OneEnv)

NextConfig ==
    \/ split
    \/ \E u \in Unit, c \in {default, output_xor(default)} :
          \E p \in CtlPos(u), n \in CtlNeg(u) : init(u, p, n, c)
    \/ \E up \in Unit, c \in Config :
          \E i \in CtlPos(up), l \in CtlNeg(Other(up)), h \in CtlNeg(up) :
             window_init(up, i, l, h, c)

SpecConfig == InitConfig /\ [][NextConfig]_vars

(***************************************************************************)
(* SpecInit: a single unit's init on enabled and disabled units, over the  *)
(* Config values with hysteresis up to MaxHyst.                            *)
(***************************************************************************)
MaxHyst == 2

InitConfigs == {c \in Config : c.hysteresis <= MaxHyst}

InitPos(u) == {HwPositivePin(u, 1)}

NextInit ==
    \/ split
    \/ \E u \in Unit, c \in InitConfigs : \E p \in InitPos(u), n \in CtlNeg(u) :
          init(u, p, n, c)
    \/ \E u \in Unit : enable(u)

SpecInit == InitConfig /\ [][NextInit]_vars

ConfigFields == {"hyst", "polarity", "pwrmode", "winout"}

\* C1: for both pairings and every Config, when WindowComparator init completes
\* the upper unit's WINOUT is 1 and the lower unit's WINOUT is 0, whatever
\* output_xor the caller gave, and HYST, POLARITY and PWRMODE of both units
\* carry the caller's Config values.
C1_WindowXorForced ==
    call.op = "window_init" =>
        /\ csr[call.unit].winout = 1
        /\ csr[Other(call.unit)].winout = 0
        /\ \A u \in Unit :
              /\ csr[u].hyst = call.config.hysteresis
              /\ csr[u].polarity = Bit(call.config.inverted)
              /\ csr[u].pwrmode = call.config.power_mode

\* C1 witness: WindowComparator init with COMP2 as upper unit and a Config with
\* output_xor = false, high hysteresis and inverted output has completed.
C1_Witness ==
    /\ call.op = "window_init"
    /\ call.unit = 2
    /\ ~call.config.output_xor
    /\ call.config.inverted
    /\ call.config.hysteresis = 3
    /\ csr[2].winout = 1 /\ csr[1].winout = 0 /\ csr[1].hyst = 3

\* C9: init performs exactly three updates of the unit's own register, in this
\* order: the positive binding (INPSEL or WINMODE alone), the negative binding
\* (INMSEL alone), then one update writing HYST, POLARITY, PWRMODE and WINOUT
\* together from the Config; so after each of the three updates the four
\* configuration fields are either all as before the call or all as the Config
\* says; and init never changes EN.
C9_InitOrder ==
    /\ [](call.op = "init" =>
            /\ Len(log) = 3
            /\ \A k \in 1 .. 3 : log[k].reg = csr_of(call.unit)
            /\ DOMAIN log[1].w \in {{"inpsel"}, {"winmode"}}
            /\ DOMAIN log[2].w = {"inmsel"}
            /\ log[3].w = [hyst     |-> call.config.hysteresis,
                           polarity |-> Bit(call.config.inverted),
                           pwrmode  |-> call.config.power_mode,
                           winout   |-> Bit(call.config.output_xor)])
    /\ [][call'.op = "init" =>
            LET u == call'.unit
                new == [hyst     |-> call'.config.hysteresis,
                        polarity |-> Bit(call'.config.inverted),
                        pwrmode  |-> call'.config.power_mode,
                        winout   |-> Bit(call'.config.output_xor)]
            IN  /\ csr'[u].en = csr[u].en
                /\ \A k \in 0 .. Len(log') :
                      LET mid == ApplyAll([rcc |-> rcc, csr |-> csr],
                                          SubSeq(log', 1, k)).csr[u]
                      IN  \/ \A f \in ConfigFields : mid[f] = csr[u][f]
                          \/ \A f \in ConfigFields : mid[f] = new[f]]_vars

\* C9 witness: init has completed on an enabled unit with a Config that sets all
\* four configuration fields, and the unit is still enabled.
C9_Witness ==
    /\ call.op = "init"
    /\ call.config = [power_mode |-> 1, hysteresis |-> 2, inverted |-> TRUE,
                      output_xor |-> TRUE]
    /\ csr[call.unit].en = 1
    /\ csr[call.unit].hyst = 2 /\ csr[call.unit].winout = 1

(***************************************************************************)
(* SpecBind: init over the whole catalog of positive sources and over the   *)
(* whole catalog of negative sources of each unit, with one Config that    *)
(* sets every configuration field.                                         *)
(***************************************************************************)
BindConfig == output_xor(output_inverted(power_mode(hysteresis(default, 3), 1)))

BindPos(u) == HwPositivePin(u, 2)

BindNeg(u) == HwNegativeSource(u, 7)

NextBind ==
    \/ split
    \/ \E u \in Unit : \E p \in PositiveInput(u) : init(u, p, BindNeg(u), BindConfig)
    \/ \E u \in Unit : \E n \in NegativeInput(u) : init(u, BindPos(u), n, BindConfig)
    \/ \E u \in Unit : enable(u)

SpecBind == InitConfig /\ [][NextBind]_vars

\* The documented INPSEL encoding of the pin and Open sources
DocInpsel(u, p) ==
    CASE u = 1 /\ p = "PC5" -> 0
      [] u = 1 /\ p = "PB2" -> 1
      [] u = 1 /\ p = "PA1" -> 2
      [] u = 2 /\ p = "PB4" -> 0
      [] u = 2 /\ p = "PB6" -> 1
      [] u = 2 /\ p = "PA3" -> 2
      [] p = "Open"         -> 3

\* The documented INMSEL encoding: reference taps, DAC channels, then the three
\* unit-specific pins in their catalog order
DocInmsel(u, n) ==
    CASE n = "VRefintM14" -> 0
      [] n = "VRefintM12" -> 1
      [] n = "VRefintM34" -> 2
      [] n = "VRefint"    -> 3
      [] n = "Channel1"   -> 4
      [] n = "Channel2"   -> 5
      [] n \in {"PB1", "PB3"} -> 6
      [] n \in {"PC4", "PB7"} -> 7
      [] n \in {"PA0", "PA2"} -> 8

\* C4: after init(u, p, n, config), INPSEL carries the documented code of p when
\* p is a pin or Open and INMSEL carries the documented code of n; within one
\* unit no two distinct negative sources write the same INMSEL value and no two
\* distinct pin/Open positive sources write the same INPSEL value.
C4_Encoding ==
    /\ call.op = "init" =>
          /\ call.pos \in PositivePins(call.unit)
                => csr[call.unit].inpsel = DocInpsel(call.unit, call.pos)
          /\ csr[call.unit].inmsel = DocInmsel(call.unit, call.neg)
    /\ \A u \in Unit :
          /\ \A n1, n2 \in NegativeInput(u) :
                n1 # n2 => negative_setup(u, n1).w.inmsel # negative_setup(u, n2).w.inmsel
          /\ \A p1, p2 \in PositivePins(u) :
                p1 # p2 => positive_setup(u, p1).w.inpsel # positive_setup(u, p2).w.inpsel

\* C4 witness: COMP2 has been initialised with PA3 as positive and PB7 as
\* negative source, and its register holds INPSEL = 0b10 and INMSEL = 0b0111.
C4_Witness ==
    /\ call.op = "init" /\ call.unit = 2
    /\ call.pos = "PA3" /\ call.neg = "PB7"
    /\ csr[2].inpsel = 2 /\ csr[2].inmsel = 7

\* Registers a and b of one unit agree on every field outside the set fs
SameExcept(a, b, fs) == \A f \in CsrFields \ fs : a[f] = b[f]

\* C5: within init, the positive binding writes only its own field of the target
\* unit's register (INPSEL for a pin or Open, the WINMODE flag alone for the
\* cross-link, which leaves INPSEL as it was) and the negative binding writes
\* only INMSEL; each leaves every other field of that register, the other
\* unit's register and the RCC bits unchanged.
C5_BindingFrame ==
    [][call'.op = "init" =>
         LET u  == call'.unit
             h0 == [rcc |-> rcc, csr |-> csr]
             h1 == Apply(h0, log'[1])
             h2 == Apply(h1, log'[2])
             own == IF call'.pos = window_input_pin(u) THEN "winmode" ELSE "inpsel"
         IN  /\ DOMAIN log'[1].w = {own}
             /\ DOMAIN log'[2].w = {"inmsel"}
             /\ SameExcept(h1.csr[u], h0.csr[u], {own})
             /\ SameExcept(h2.csr[u], h1.csr[u], {"inmsel"})
             /\ own = "winmode" => h1.csr[u].winmode = 1 /\ h1.csr[u].inpsel = csr[u].inpsel
             /\ h1.csr[Other(u)] = csr[Other(u)] /\ h2.csr[Other(u)] = csr[Other(u)]
             /\ h1.rcc = rcc /\ h2.rcc = rcc
             /\ csr'[Other(u)] = csr[Other(u)]
             /\ csr'[u].en = csr[u].en]_vars

\* C5 witness: the cross-link binding has been applied by init to an enabled unit
\* that an earlier init had bound to a pin: INPSEL still holds that pin's code,
\* WINMODE is set, and the other unit's register is configured too.
C5_Witness ==
    /\ call.op = "init"
    /\ call.pos = window_input_pin(call.unit)
    /\ csr[call.unit].winmode = 1
    /\ csr[call.unit].inpsel = 2
    /\ csr[call.unit].en = 1
    /\ csr[Other(call.unit)].inmsel = 8

(***************************************************************************)
(* SpecWindow: the window comparator against the analog environment: every *)
(* signal voltage on a pin of either unit, thresholds from two reference   *)
(* taps and a DAC channel.                                                 *)
(***************************************************************************)
WinConfigs == {default, output_xor(default), output_inverted(default)}

WinInput(u) == {HwPositivePin(u, 1)}

WinLower == {"VRefintM14", "Channel1"}

WinUpper == {"VRefintM34", "Channel1"}

WinEnvs == {[vin |-> v, wire |-> w, vext |-> MaxVolt] : v \in Volt, w \in {"PB2", "PB6"}}

InitWindow == Boot(WinEnvs)

NextWindow ==
    \/ split
    \/ \E up \in Unit, c \in WinConfigs :
          \E i \in WinInput(up), l \in WinLower, h \in WinUpper :
             window_init(up, i, l, h, c)
    \/ \E up \in Unit : window_enable(up)
    \/ \E up \in Unit : window_disable(up)
    \/ \E up \in Unit : window_output(up)
    \/ \E up \in Unit : above_lower(up)

SpecWindow == InitWindow /\ [][NextWindow]_vars

\* The window of C2: set up by the first init after split, not inverted, on the
\* pin that carries the signal, lower threshold below upper, both units enabled
WindowReady ==
    /\ win.state = "fresh"
    /\ ~win.config.inverted
    /\ win.input \in PositivePins(win.up) \ {"Open"}
    /\ analog.wire = win.input
    /\ SourceVolt(analog, win.lo) < SourceVolt(analog, win.hi)
    /\ csr[1].en = 1 /\ csr[2].en = 1

\* C2: from the state split leaves, after WindowComparator init(input pin,
\* lower, upper, config) with output_inverted = false and lower < upper and
\* WindowComparator enable: for an input strictly between the thresholds
\* output() and above_lower() are true; below the lower threshold both are
\* false; above the upper threshold output() is false and above_lower() true.
C2_WindowOutput ==
    LET v  == analog.vin
        lo == SourceVolt(analog, win.lo)
        hi == SourceVolt(analog, win.hi)
    IN  (WindowReady /\ call.unit = win.up) =>
          /\ call.op = "window_output" =>
                /\ (lo < v /\ v < hi) => call.ret = TRUE
                /\ v < lo => call.ret = FALSE
                /\ v > hi => call.ret = FALSE
          /\ call.op = "above_lower" =>
                /\ (lo < v /\ v < hi) => call.ret = TRUE
                /\ v < lo => call.ret = FALSE
                /\ v > hi => call.ret = TRUE

\* C2 witness: output() returns TRUE for a signal strictly inside the window of
\* a WindowComparator with COMP2 as upper unit and output_xor = false given.
C2_Witness ==
    /\ WindowReady
    /\ win.up = 2
    /\ ~win.config.output_xor
    /\ call.op = "window_output" /\ call.unit = 2
    /\ SourceVolt(analog, win.lo) < analog.vin
    /\ analog.vin < SourceVolt(analog, win.hi)
    /\ call.ret = TRUE
====
